---- MODULE Spec2Model ----
(***************************************************************************)
(* vibegrep: chunking, batching, dispatch and reconciliation engine of     *)
(* src/vibegrep/__init__.py.                                               *)
(*                                                                         *)
(* Text is a sequence of one-character strings.  The size budget MAX_CHARS *)
(* is 20000 in the program; the model runs the same code on a budget of a  *)
(* few characters so that split files and oversized lines are in reach.    *)
(***************************************************************************)
EXTENDS Integers, Sequences, FiniteSets, TLC

\* Size budget per chunk and per batch (20000 in the program, scaled here).
MAX_CHARS == 3

\* Longest file text of the chunker specification.
MaxFileLen == 6

NL == "\n"
CR == "\r"
SP == " "

\* Characters at which str.splitlines breaks a line.
LineBreaks == {NL, CR}

\* Characters str.strip removes.
Whitespace == {SP, NL, CR}

\* All texts over an alphabet of at most n characters.
TextsOver(alphabet, n) == UNION {[1..k -> alphabet] : k \in 0..n}

(***************************************************************************)
(* Python string primitives the program uses.                              *)
(***************************************************************************)

RECURSIVE SplitFrom(_, _, _, _)
\* Scan s from position i; cur is the line being read, acc the lines read.
\* "\r\n" is one line break; a last line without a break is kept.
SplitFrom(s, i, cur, acc) ==
  IF i > Len(s)
  THEN IF cur = <<>> THEN acc ELSE Append(acc, cur)
  ELSE IF s[i] = CR /\ i < Len(s) /\ s[i + 1] = NL
  THEN SplitFrom(s, i + 2, <<>>, Append(acc, cur \o <<CR, NL>>))
  ELSE IF s[i] \in LineBreaks
  THEN SplitFrom(s, i + 1, <<>>, Append(acc, Append(cur, s[i])))
  ELSE SplitFrom(s, i + 1, Append(cur, s[i]), acc)

\* content.splitlines(keepends=True)
splitlines_keepends(s) == SplitFrom(s, 1, <<>>, <<>>)

RECURSIVE DropBreak(_)
\* A line without its line break.
DropBreak(line) ==
  IF line # <<>> /\ line[Len(line)] \in LineBreaks
  THEN DropBreak(SubSeq(line, 1, Len(line) - 1))
  ELSE line

\* content.splitlines()
splitlines(s) ==
  LET kept == splitlines_keepends(s)
  IN  [k \in 1..Len(kept) |-> DropBreak(kept[k])]

RECURSIVE join(_)
\* "".join(lines)
join(lines) == IF lines = <<>> THEN <<>> ELSE Head(lines) \o join(Tail(lines))

RECURSIVE lstrip(_)
lstrip(s) == IF s # <<>> /\ Head(s) \in Whitespace THEN lstrip(Tail(s)) ELSE s

RECURSIVE rstrip(_)
rstrip(s) ==
  IF s # <<>> /\ s[Len(s)] \in Whitespace
  THEN rstrip(SubSeq(s, 1, Len(s) - 1))
  ELSE s

\* s.strip()
strip(s) == lstrip(rstrip(s))

DigitChars == <<"0", "1", "2", "3", "4", "5", "6", "7", "8", "9">>

RECURSIVE Str(_)
\* str(n) of a natural number, as the f-string formats it.
Str(n) ==
  IF n < 10
  THEN <<DigitChars[n + 1]>>
  ELSE Str(n \div 10) \o <<DigitChars[(n % 10) + 1]>>

(***************************************************************************)
(* Chunker                                                                 *)
(***************************************************************************)

\* A chunk is the tuple (label, content, line_offset).
Chunk(label, text, offset) == [label |-> label, text |-> text, offset |-> offset]

\* f"{rel}[{start+1}:]"
ChunkLabel(rel, start) == rel \o <<"[">> \o Str(start + 1) \o <<":", "]">>

\* Loop state of chunk_file before the first line.
ChunkInit == [chunks |-> <<>>, cur |-> <<>>, cur_len |-> 0, start |-> 0]

\* Close the running chunk at every line.
ChunkStepEager(rel, st, i, line) ==
  IF st.cur # <<>>
  THEN [chunks  |-> Append(st.chunks,
                           Chunk(ChunkLabel(rel, st.start), join(st.cur), st.start)),
        cur     |-> <<line>>,
        cur_len |-> Len(line),
        start   |-> i]
  ELSE [st EXCEPT !.cur = Append(@, line), !.cur_len = @ + Len(line)]

\* Close the running chunk only after it has grown over the budget.
ChunkStepLate(rel, st, i, line) ==
  IF st.cur_len > MAX_CHARS /\ st.cur # <<>>
  THEN [chunks  |-> Append(st.chunks,
                           Chunk(ChunkLabel(rel, st.start), join(st.cur), st.start)),
        cur     |-> <<line>>,
        cur_len |-> Len(line),
        start   |-> i]
  ELSE [st EXCEPT !.cur = Append(@, line), !.cur_len = @ + Len(line)]

\* One iteration of the line loop: i is the 0-based index of line.
ChunkStep(rel, st, i, line) ==
  IF st.cur_len + Len(line) > MAX_CHARS /\ st.cur # <<>>
  THEN [chunks  |-> Append(st.chunks,
                           Chunk(ChunkLabel(rel, st.start), join(st.cur), st.start)),
        cur     |-> <<line>>,
        cur_len |-> Len(line),
        start   |-> i]
  ELSE [st EXCEPT !.cur = Append(@, line), !.cur_len = @ + Len(line)]

RECURSIVE ChunkLoop(_, _, _, _)
\* for i, line in enumerate(lines), from the k-th line on.
ChunkLoop(rel, lines, k, st) ==
  IF k > Len(lines)
  THEN st
  ELSE ChunkLoop(rel, lines, k + 1, ChunkStep(rel, st, k - 1, lines[k]))

\* The last chunk is forgotten.
ChunkFlushNone(rel, st) == st.chunks

\* The chunk still open after the loop is emitted.
ChunkFlush(rel, st) ==
  IF st.cur # <<>>
  THEN Append(st.chunks,
              Chunk(IF st.start > 0 THEN ChunkLabel(rel, st.start) ELSE rel,
                    join(st.cur), st.start))
  ELSE st.chunks

chunk_file(rel, text) ==
  IF Len(text) <= MAX_CHARS
  THEN <<Chunk(rel, text, 0)>>
  ELSE ChunkFlush(rel, ChunkLoop(rel, splitlines_keepends(text), 1, ChunkInit))

(***************************************************************************)
(* Batcher                                                                 *)
(***************************************************************************)

\* What read_file returns: the text of a file, or None for a file it cannot
\* read.
ReadOk(text) == [ok |-> TRUE, text |-> text]
ReadNone == [ok |-> FALSE, text |-> <<>>]

\* Loop state of pack_batches before the first file.
PackInit == [batches |-> <<>>, cur |-> <<>>, cur_len |-> 0]

\* The open batch is closed only after it has grown over the budget.
PackStepLate(st, c) ==
  LET size == Len(c.text)
  IN  IF size > MAX_CHARS
      THEN [st EXCEPT !.batches = Append(@, <<c>>)]
      ELSE IF st.cur_len > MAX_CHARS
      THEN [batches |-> IF st.cur # <<>> THEN Append(st.batches, st.cur)
                                         ELSE st.batches,
            cur     |-> <<c>>,
            cur_len |-> size]
      ELSE [st EXCEPT !.cur = Append(@, c), !.cur_len = @ + size]

\* A chunk that fits is put at the front of the open batch.
PackStepFront(st, c) ==
  LET size == Len(c.text)
  IN  IF size > MAX_CHARS
      THEN [st EXCEPT !.batches = Append(@, <<c>>)]
      ELSE IF st.cur_len + size > MAX_CHARS
      THEN [batches |-> IF st.cur # <<>> THEN Append(st.batches, st.cur)
                                         ELSE st.batches,
            cur     |-> <<c>>,
            cur_len |-> size]
      ELSE [st EXCEPT !.cur = <<c>> \o @, !.cur_len = @ + size]

\* One iteration of the chunk loop of pack_batches.
PackStep(st, c) ==
  LET size == Len(c.text)
  IN  IF size > MAX_CHARS
      THEN [st EXCEPT !.batches = Append(@, <<c>>)]
      ELSE IF st.cur_len + size > MAX_CHARS
      THEN [batches |-> IF st.cur # <<>> THEN Append(st.batches, st.cur)
                                         ELSE st.batches,
            cur     |-> <<c>>,
            cur_len |-> size]
      ELSE [st EXCEPT !.cur = Append(@, c), !.cur_len = @ + size]

RECURSIVE PackChunks(_, _)
\* for label, text, offset in chunk_file(rel, content)
PackChunks(st, cs) ==
  IF cs = <<>> THEN st ELSE PackChunks(PackStep(st, Head(cs)), Tail(cs))

RECURSIVE PackFiles(_, _)
\* for f in files: a file that cannot be read is skipped.
PackFiles(st, fs) ==
  IF fs = <<>>
  THEN st
  ELSE IF ~Head(fs).content.ok
  THEN PackFiles(st, Tail(fs))
  ELSE PackFiles(PackChunks(st, chunk_file(Head(fs).rel, Head(fs).content.text)),
                 Tail(fs))

\* The batch still open after the loop is forgotten.
PackFlushNone(st) == st.batches

\* The batch still open after the loop is emitted.
PackFlush(st) == IF st.cur # <<>> THEN Append(st.batches, st.cur) ELSE st.batches

\* fs: the collected files in order, each [rel, content] with content what
\* read_file returns for it.
pack_batches(fs) == PackFlush(PackFiles(PackInit, fs))

\* sum(len(c) for _,c,_ in b)
RECURSIVE BatchSize(_)
BatchSize(b) == IF b = <<>> THEN 0 ELSE Len(Head(b).text) + BatchSize(Tail(b))

\* The dry run's list of oversized batches, by batch number i+1.
Oversized(bs) == {i \in 1..Len(bs) : BatchSize(bs[i]) > MAX_CHARS}

(***************************************************************************)
(* Reconciler                                                              *)
(***************************************************************************)

\* Loop state of find_lines before the first response line: results is the
\* list of (global_line_no, line_text).
FindInit == [results |-> <<>>, seen |-> {}, idx |-> 0]

\* The line number without the 1-based correction.
GlobalLineZero(offset, i) == offset + i

\* gln of the chunk line with 0-based index i.
GlobalLine(offset, i) == offset + i + 1

\* The chunk line must equal the trimmed response line as it stands.
LineMatchesStrict(src, offset, i, s, seen) ==
  src[i + 1] = s /\ GlobalLine(offset, i) \notin seen

\* A line matches whether or not it was recorded before.
LineMatchesAny(src, offset, i, s, seen) == strip(src[i + 1]) = s

\* The test of the inner loop for the chunk line with 0-based index i.
LineMatches(src, offset, i, s, seen) ==
  strip(src[i + 1]) = s /\ GlobalLine(offset, i) \notin seen

RECURSIVE ScanRange(_, _, _, _, _)
\* for i in range(i, len(src)): the first index that passes the test, -1
\* when the loop ends without a break.
ScanRange(src, offset, i, s, seen) ==
  IF i >= Len(src) THEN -1
  ELSE IF LineMatches(src, offset, i, s, seen) THEN i
  ELSE ScanRange(src, offset, i + 1, s, seen)

\* The search never restarts from the beginning of the chunk.
FindStepForward(src, offset, st, ml) ==
  LET s == strip(ml)
  IN  IF s = <<>>
      THEN st
      ELSE LET i == ScanRange(src, offset, st.idx, s, st.seen)
           IN  IF i < 0
               THEN st
               ELSE [results |-> Append(st.results,
                                        <<GlobalLine(offset, i), src[i + 1]>>),
                     seen    |-> st.seen \cup {GlobalLine(offset, i)},
                     idx     |-> i + 1]

\* One iteration of the loop over the response lines.
FindStep(src, offset, st, ml) ==
  LET s == strip(ml)
  IN  IF s = <<>>
      THEN st
      ELSE LET fwd == ScanRange(src, offset, st.idx, s, st.seen)
               i   == IF fwd >= 0 THEN fwd ELSE ScanRange(src, offset, 0, s, st.seen)
           IN  IF i < 0
               THEN st
               ELSE [results |-> Append(st.results,
                                        <<GlobalLine(offset, i), src[i + 1]>>),
                     seen    |-> st.seen \cup {GlobalLine(offset, i)},
                     idx     |-> i + 1]

RECURSIVE FindLoop(_, _, _, _)
\* for ml in matched
FindLoop(src, offset, st, matched) ==
  IF matched = <<>>
  THEN st
  ELSE FindLoop(src, offset, FindStep(src, offset, st, Head(matched)), Tail(matched))

find_lines(text, offset, matched) ==
  FindLoop(splitlines(text), offset, FindInit, matched).results

(***************************************************************************)
(* Reconciliation of one batch                                             *)
(***************************************************************************)

\* ord(c) of the characters that occur in texts and labels.
Ord(c) ==
  CASE c = NL -> 10 [] c = CR -> 13 [] c = SP -> 32
    [] c = "0" -> 48 [] c = "1" -> 49 [] c = "2" -> 50 [] c = "3" -> 51
    [] c = "4" -> 52 [] c = "5" -> 53 [] c = "6" -> 54 [] c = "7" -> 55
    [] c = "8" -> 56 [] c = "9" -> 57 [] c = ":" -> 58
    [] c = "[" -> 91 [] c = "]" -> 93
    [] c = "a" -> 97 [] c = "b" -> 98 [] c = "f" -> 102 [] c = "g" -> 103
    [] c = "h" -> 104

RECURSIVE TextLess(_, _)
\* s < t of two Python strings.
TextLess(s, t) ==
  IF t = <<>> THEN FALSE
  ELSE IF s = <<>> THEN TRUE
  ELSE IF Head(s) # Head(t) THEN Ord(Head(s)) < Ord(Head(t))
  ELSE TextLess(Tail(s), Tail(t))

\* r < q of two (global_line_no, line_text) tuples.
RecordLess(r, q) == r[1] < q[1] \/ (r[1] = q[1] /\ TextLess(r[2], q[2]))

RECURSIVE SortedRecords(_)
\* sorted(S) of a set of (global_line_no, line_text) tuples.
SortedRecords(S) ==
  IF S = {} THEN <<>>
  ELSE LET least == CHOOSE x \in S : \A y \in S \ {x} : RecordLess(x, y)
       IN  <<least>> \o SortedRecords(S \ {least})

RECURSIVE SortedTexts(_)
\* sorted(S) of a set of strings.
SortedTexts(S) ==
  IF S = {} THEN <<>>
  ELSE LET least == CHOOSE x \in S : \A y \in S \ {x} : TextLess(x, y)
       IN  <<least>> \o SortedTexts(S \ {least})

Elems(seq) == {seq[k] : k \in 1..Len(seq)}

RECURSIVE IndexOf(_, _, _)
\* label.index(c) from position k on, 0 when c does not occur.
IndexOf(label, c, k) ==
  IF k > Len(label) THEN 0
  ELSE IF label[k] = c THEN k
  ELSE IndexOf(label, c, k + 1)

\* 'file.py[42:]' -> 'file.py'
rel_from_label(label) ==
  IF IndexOf(label, "[", 1) > 0
  THEN SubSeq(label, 1, IndexOf(label, "[", 1) - 1)
  ELSE label

RECURSIVE Collect(_, _, _)
\* The chunk loop of match_results: results maps a path to the list of the
\* records found for it so far.
Collect(results, lines, batch) ==
  IF batch = <<>>
  THEN results
  ELSE LET c   == Head(batch)
           m   == find_lines(c.text, c.offset, lines)
           rel == rel_from_label(c.label)
       IN  IF m = <<>>
           THEN Collect(results, lines, Tail(batch))
           ELSE Collect([r \in DOMAIN results \cup {rel} |->
                           IF r = rel
                           THEN (IF rel \in DOMAIN results THEN results[rel] ELSE <<>>) \o m
                           ELSE results[r]],
                        lines, Tail(batch))

\* The empty mapping {}.
NoResults == [r \in {} |-> <<>>]

\* The matches of one batch: path -> records sorted by line number, deduplicated.
match_results(output, batch) ==
  IF output = <<>> \/ strip(output) = <<>>
  THEN NoResults
  ELSE LET results == Collect(NoResults, splitlines(output), batch)
       IN  [rel \in DOMAIN results |-> SortedRecords(Elems(results[rel]))]

RECURSIVE Flatten(_)
Flatten(seqs) == IF seqs = <<>> THEN <<>> ELSE Head(seqs) \o Flatten(Tail(seqs))

\* The records fmt_pipe and fmt_tty print for one batch, in printing order:
\* paths sorted, each path's records in list order.  A printed record is
\* <<path, line number, line text>>.
Printed(results) ==
  LET rels == SortedTexts(DOMAIN results)
  IN  Flatten([k \in 1..Len(rels) |->
                 [j \in 1..Len(results[rels[k]]) |->
                    <<rels[k], results[rels[k]][j][1], results[rels[k]][j][2]>>]])

\* The chunk labels of a batch, as the error report joins them.
Labels(batch) == [k \in 1..Len(batch) |-> batch[k].label]

(***************************************************************************)
(* The external call                                                       *)
(***************************************************************************)

\* Attempts of one call: range(3).
MaxAttempts == 3

\* What the service may do with one request: httpx.post raises, or a response
\* arrives with a status and, for a well-formed body, the message content.
TransportError == [kind |-> "exception", status |-> 0, wellformed |-> FALSE, content |-> <<>>]
Response(status) == [kind |-> "response", status |-> status, wellformed |-> FALSE, content |-> <<>>]
Completion(text) == [kind |-> "response", status |-> 200, wellformed |-> TRUE, content |-> text]

\* Every server error is retried.
IsTransientWide(status) == status \in {429, 500, 502, 503, 504}

\* r.status_code in (429, 502, 503, 504)
IsTransient(status) == status \in {429, 502, 503, 504}

\* r.raise_for_status() raises for an error status.
RaisesForStatus(status) == status >= 400

\* A call of call_llm that has begun: attempt counts the requests issued,
\* slept lists the backoff sleeps, value is what the call returned.
CallStart == [st |-> "running", attempt |-> 0, slept |-> <<>>, value |-> <<>>]

\* One request of call_llm and everything the call does with the reply, up to
\* the next request or the end of the call.
CallStep(c, reply) ==
  IF reply.kind = "exception"
  THEN [c EXCEPT !.st = "raised", !.attempt = @ + 1]
  ELSE IF IsTransient(reply.status)
  THEN [c EXCEPT !.slept = Append(@, 2 ^ c.attempt),
                 !.attempt = @ + 1,
                 !.st = IF c.attempt + 1 < MaxAttempts
                        THEN "running"
                        ELSE IF RaisesForStatus(reply.status) THEN "raised"
                        ELSE "returned"]
  ELSE IF RaisesForStatus(reply.status) \/ ~reply.wellformed
  THEN [c EXCEPT !.st = "raised", !.attempt = @ + 1]
  ELSE [c EXCEPT !.st = "returned", !.attempt = @ + 1,
                 !.value = strip(reply.content)]

(***************************************************************************)
(* State                                                                   *)
(***************************************************************************)
VARIABLES
  pc,       \* position of the run
  content,  \* text of the file being chunked
  chunks,   \* chunks of that file
  files,    \* the collected files in order, each [rel, content]
  batches,  \* result of pack_batches
  oversized, \* batches the dry run reports as oversized
  chunk,    \* number of the chunk find_lines runs on (0: none)
  fl,       \* loop state of find_lines: results, seen, idx
  nresp,    \* response lines find_lines has consumed
  matched,  \* the response lines consumed, where a specification records them
  call,     \* the call_llm call of the call specification
  log,      \* the replies that call has received
  is_tty,   \* whether standard output is a terminal
  futs,     \* per batch, the future of its call_llm call
  submitted, \* batches submitted to the pool so far
  handled,  \* batches the as_completed loop has gone through
  found,    \* a batch has produced matches
  printed,  \* what fmt_tty was last given and returned
  stdout,   \* the match records printed, in printing order
  stderr,   \* the error reports printed, each the labels of a batch
  exitcode, \* status of sys.exit, -1 while the run goes on
  merging   \* batches whose future the as_completed loop is working on

mainVars == <<is_tty, futs, submitted, handled, found, printed, stdout, stderr,
              exitcode, merging>>

vars == <<pc, content, chunks, files, batches, oversized, chunk, fl, nresp,
          matched, call, log, mainVars>>

\* The variables a specification does not use keep these values.
ChunkerIdle == content = <<>> /\ chunks = <<>>
BatcherIdle == files = <<>> /\ batches = <<>> /\ oversized = {}
ReconcilerIdle == chunk = 0 /\ fl = FindInit /\ nresp = 0 /\ matched = <<>>
CallIdle == call = CallStart /\ log = <<>>
MainIdle ==
  /\ is_tty = FALSE /\ futs = <<>> /\ submitted = 0 /\ handled = {}
  /\ found = FALSE /\ printed = FALSE /\ stdout = <<>> /\ stderr = <<>>
  /\ exitcode = -1 /\ merging = {}

\* Relative path of the file of the chunker specification.
Rel == <<"f">>

(***************************************************************************)
(* Chunker specification: chunk_file applied to every text over            *)
(* {a, \n, \r} of at most MaxFileLen characters.                           *)
(***************************************************************************)
ChunkAlphabet == {"a", NL, CR}

InitChunk ==
  /\ pc = "chunk"
  /\ content \in TextsOver(ChunkAlphabet, MaxFileLen)
  /\ chunks = <<>>
  /\ BatcherIdle
  /\ ReconcilerIdle
  /\ CallIdle
  /\ MainIdle

ChunkFile ==
  /\ pc = "chunk"
  /\ chunks' = chunk_file(Rel, content)
  /\ pc' = "chunked"
  /\ UNCHANGED <<content, files, batches, oversized, chunk, fl, nresp, matched, call, log, mainVars>>

NextChunk == ChunkFile

SpecChunk == InitChunk /\ [][NextChunk]_vars

\* Texts of the chunks, concatenated in order.
ChunkTexts(cs) == join([k \in 1..Len(cs) |-> cs[k].text])

\* Lines (with their breaks) of the chunks, in order.
RECURSIVE ChunkLines(_)
ChunkLines(cs) ==
  IF cs = <<>> THEN <<>>
  ELSE splitlines_keepends(Head(cs).text) \o ChunkLines(Tail(cs))

\* C3: the chunks of a file, concatenated in order, are the file's text, and
\* the lines of the chunks are the lines of the file: no line is cut by a
\* chunk boundary.
ChunkCoverage ==
  pc = "chunked" =>
    /\ ChunkTexts(chunks) = content
    /\ ChunkLines(chunks) = splitlines_keepends(content)

\* A file was split into chunks, one boundary right after a "\r\n" break.
ChunkCoverageWitness ==
  /\ pc = "chunked"
  /\ Len(chunks) >= 2
  /\ \E k \in 1..(Len(chunks) - 1) :
       LET t == chunks[k].text
       IN  Len(t) >= 2 /\ t[Len(t) - 1] = CR /\ t[Len(t)] = NL

\* C4: a chunk is within the budget unless it is one single line (counted
\* with its line break, as the chunker counts it) longer than the budget.
ChunkBudget ==
  pc = "chunked" =>
    \A k \in 1..Len(chunks) :
      \/ Len(chunks[k].text) <= MAX_CHARS
      \/ /\ Len(splitlines_keepends(chunks[k].text)) = 1
         /\ Len(splitlines_keepends(chunks[k].text)[1]) > MAX_CHARS

\* A split file with one chunk over the budget and one chunk of several lines.
ChunkBudgetWitness ==
  /\ pc = "chunked"
  /\ \E k \in 1..Len(chunks) : Len(chunks[k].text) > MAX_CHARS
  /\ \E k \in 1..Len(chunks) :
       /\ Len(splitlines_keepends(chunks[k].text)) >= 2
       /\ Len(chunks[k].text) <= MAX_CHARS

(***************************************************************************)
(* Batcher specification: pack_batches applied to three files, each        *)
(* unreadable or any text over {a, \n} of at most MaxPackLen characters,   *)
(* followed by the dry run's report.                                       *)
(***************************************************************************)
\* Longest file text of the batcher specification.
MaxPackLen == 4

PackAlphabet == {"a", NL}

\* Relative paths of the files, in collection (sorted) order.
PackRels == <<(<<"f">>), (<<"g">>), (<<"h">>)>>

InitPack ==
  /\ pc = "pack"
  /\ \E cs \in [1..Len(PackRels) ->
                  {ReadOk(t) : t \in TextsOver(PackAlphabet, MaxPackLen)}
                    \cup {ReadNone}] :
       files = [k \in 1..Len(PackRels) |-> [rel |-> PackRels[k], content |-> cs[k]]]
  /\ batches = <<>>
  /\ oversized = {}
  /\ ChunkerIdle
  /\ ReconcilerIdle
  /\ CallIdle
  /\ MainIdle

PackBatches ==
  /\ pc = "pack"
  /\ batches' = pack_batches(files)
  /\ pc' = "packed"
  /\ UNCHANGED <<content, chunks, files, oversized, chunk, fl, nresp, matched, call, log, mainVars>>

DryRun ==
  /\ pc = "packed"
  /\ oversized' = Oversized(batches)
  /\ pc' = "dry_exit"
  /\ UNCHANGED <<content, chunks, files, batches, chunk, fl, nresp, matched, call, log, mainVars>>

NextPack == PackBatches \/ DryRun

SpecPack == InitPack /\ [][NextPack]_vars

RECURSIVE AllChunks(_)
\* The ordered chunk list the batcher packs: the chunks of every readable
\* file, in file-then-chunk order.
AllChunks(fs) ==
  IF fs = <<>> THEN <<>>
  ELSE IF ~Head(fs).content.ok THEN AllChunks(Tail(fs))
  ELSE chunk_file(Head(fs).rel, Head(fs).content.text) \o AllChunks(Tail(fs))

\* C5: a batch is within the budget unless it holds exactly one chunk that is
\* itself over the budget; the batches the dry run reports as oversized are
\* such single-chunk batches.
BatchBudget ==
  /\ pc = "packed" =>
       \A i \in 1..Len(batches) :
         \/ BatchSize(batches[i]) <= MAX_CHARS
         \/ Len(batches[i]) = 1 /\ Len(batches[i][1].text) > MAX_CHARS
  /\ pc = "dry_exit" =>
       \A i \in oversized : Len(batches[i]) = 1

\* An over-budget single-chunk batch next to a batch of several chunks.
BatchBudgetWitness ==
  /\ pc = "dry_exit"
  /\ oversized # {}
  /\ \E i \in 1..Len(batches) : Len(batches[i]) >= 2
  /\ \E i \in 1..Len(batches) : BatchSize(batches[i]) = MAX_CHARS

\* Places <<i, j>> of the batches that hold chunk c.
PlacesOf(c) ==
  UNION {{<<i, j>> : j \in {j \in 1..Len(batches[i]) : batches[i][j] = c}} :
           i \in 1..Len(batches)}

\* C6: every chunk of the input list is in exactly one place of the batches,
\* the batches hold nothing else, and no batch is empty.
BatchPartition ==
  pc = "packed" =>
    LET input == AllChunks(files)
    IN  /\ \A k \in 1..Len(input) : Cardinality(PlacesOf(input[k])) = 1
        /\ \A i \in 1..Len(batches) :
             /\ batches[i] # <<>>
             /\ \A j \in 1..Len(batches[i]) :
                  \E k \in 1..Len(input) : input[k] = batches[i][j]

\* Chunks of a split file, an over-budget chunk and a shared batch, all packed.
BatchPartitionWitness ==
  /\ pc = "packed"
  /\ Len(batches) >= 3
  /\ \E i \in 1..Len(batches) : Len(batches[i]) >= 2
  /\ \E i \in 1..Len(batches) : BatchSize(batches[i]) > MAX_CHARS
  /\ \E i \in 1..Len(batches) : batches[i][1].offset > 0

(***************************************************************************)
(* Reconciler specification: a file text over {a, space, \n} of at most    *)
(* MaxSrcLen characters is chunked, and find_lines runs on one of its      *)
(* chunks over a response of at most MaxResp lines, each any text over     *)
(* {a, space} of at most MaxRespLineLen characters.                        *)
(***************************************************************************)
\* Longest file text of the reconciler specification.
MaxSrcLen == 6

\* Most response lines of one find_lines call.
MaxResp == 3

\* Longest response line.
MaxRespLineLen == 2

SrcAlphabet == {"a", SP, NL}

ResponseLines == TextsOver({"a", SP}, MaxRespLineLen)

InitFind ==
  /\ pc = "find_chunk"
  /\ content \in TextsOver(SrcAlphabet, MaxSrcLen)
  /\ chunks = <<>>
  /\ BatcherIdle
  /\ ReconcilerIdle
  /\ CallIdle
  /\ MainIdle

\* The file is chunked as pack_batches chunks it.
FindChunkFile ==
  /\ pc = "find_chunk"
  /\ chunks' = chunk_file(Rel, content)
  /\ pc' = "find_call"
  /\ UNCHANGED <<content, files, batches, oversized, chunk, fl, nresp, matched, call, log, mainVars>>

\* match_results calls find_lines on chunk k.
FindCall(k) ==
  /\ pc = "find_call"
  /\ chunk' = k
  /\ fl' = FindInit
  /\ pc' = "find_loop"
  /\ UNCHANGED <<content, chunks, files, batches, oversized, nresp, matched, call,
                 log, mainVars>>

\* find_lines consumes the response line ml.
FindLine(ml) ==
  /\ pc = "find_loop"
  /\ nresp < MaxResp
  /\ fl' = FindStep(splitlines(chunks[chunk].text), chunks[chunk].offset, fl, ml)
  /\ nresp' = nresp + 1
  /\ UNCHANGED <<pc, content, chunks, files, batches, oversized, chunk, matched,
                 call, log, mainVars>>

NextFind ==
  \/ FindChunkFile
  \/ \E k \in 1..Len(chunks) : FindCall(k)
  \/ \E ml \in ResponseLines : FindLine(ml)

SpecFind == InitFind /\ [][NextFind]_vars

\* C1: every record (n, t) of find_lines on a chunk has n = lineOffset +
\* localIndex + 1 for a local index of the chunk, and t is line n of the file
\* the chunk was cut from.
LineAttribution ==
  pc = "find_loop" =>
    \A r \in 1..Len(fl.results) :
      LET n == fl.results[r][1]
          t == fl.results[r][2]
      IN  /\ \E i \in 0..(Len(splitlines(chunks[chunk].text)) - 1) :
               n = chunks[chunk].offset + i + 1
          /\ n \in 1..Len(splitlines(content))
          /\ t = splitlines(content)[n]

\* A record of a later chunk of a split file, not the chunk's first line, whose
\* text carries whitespace the response line was matched without.
LineAttributionWitness ==
  /\ pc = "find_loop"
  /\ chunks[chunk].offset > 0
  /\ \E r \in 1..Len(fl.results) :
       /\ fl.results[r][1] > chunks[chunk].offset + 1
       /\ fl.results[r][2] # strip(fl.results[r][2])

\* C10: no two records of find_lines on one chunk have the same global line
\* number.
NoDuplicateRecords ==
  pc = "find_loop" =>
    \A j, k \in 1..Len(fl.results) :
      j # k => fl.results[j][1] # fl.results[k][1]

\* The response repeated a line: two records have the same trimmed text, and a
\* further response line left no record.
NoDuplicateRecordsWitness ==
  /\ pc = "find_loop"
  /\ nresp > Len(fl.results)
  /\ \E j, k \in 1..Len(fl.results) :
       j < k /\ strip(fl.results[j][2]) = strip(fl.results[k][2])

(***************************************************************************)
(* Call specification: one call of call_llm against a service that answers *)
(* each request with any of Replies.                                       *)
(***************************************************************************)
Statuses == {401, 429, 500, 502, 503, 504}

CallContents == {<<>>, <<"a">>, <<SP, "a", NL>>}

Replies ==
  {TransportError} \cup {Response(st) : st \in Statuses \cup {200}}
    \cup {Completion(t) : t \in CallContents}

InitCall ==
  /\ pc = "call"
  /\ call = CallStart
  /\ log = <<>>
  /\ ChunkerIdle
  /\ BatcherIdle
  /\ ReconcilerIdle
  /\ MainIdle

\* The service answers the request call_llm has issued.
CallRequest(reply) ==
  /\ pc = "call"
  /\ call.st = "running"
  /\ call' = CallStep(call, reply)
  /\ log' = Append(log, reply)
  /\ UNCHANGED <<pc, content, chunks, files, batches, oversized, chunk, fl, nresp, matched,
                 mainVars>>

NextCall == \E reply \in Replies : CallRequest(reply)

SpecCall == InitCall /\ [][NextCall]_vars

\* A response with one of the four transient statuses.
TransientReply(reply) ==
  reply.kind = "response" /\ reply.status \in {429, 502, 503, 504}

\* C8: a call issues at most 3 requests; every request but the last was
\* answered with 429, 502, 503 or 504; any other reply ends the call at once,
\* with a value only for a well-formed success response; three transient
\* responses end the call in failure.
RetryPolicy ==
  /\ Len(log) <= 3
  /\ \A k \in 1..(Len(log) - 1) : TransientReply(log[k])
  /\ call.st = "running" => \A k \in 1..Len(log) : TransientReply(log[k])
  /\ (log # <<>> /\ ~TransientReply(log[Len(log)])) =>
       /\ call.st \in {"returned", "raised"}
       /\ call.st = "returned" <=>
            (log[Len(log)].status = 200 /\ log[Len(log)].wellformed)
  /\ (Len(log) = 3 /\ TransientReply(log[3])) => call.st = "raised"
  /\ call.st = "returned" => ~TransientReply(log[Len(log)])

\* Three transient responses in a row: the call has failed after its third
\* request, having slept 1, 2 and 4 seconds.
RetryPolicyWitness ==
  /\ call.st = "raised"
  /\ Len(log) = 3
  /\ TransientReply(log[3])
  /\ call.slept = <<1, 2, 4>>

(***************************************************************************)
(* The run: two files are packed, every batch is submitted to a pool of    *)
(* Threads workers, each worker runs call_llm against a service that       *)
(* answers with any of MainReplies, and the main thread goes through the   *)
(* futures as they complete.                                               *)
(***************************************************************************)
\* Worker threads of the pool (--threads, 10 by default).
Threads == 2

\* Texts of the first file (the longer one is split into two chunks) and of
\* the second file.
MainTextsF == {<<"a", NL, NL, "a", NL>>, <<"a">>}
MainTextsG == {<<"b", NL, "a">>, <<"a">>}

\* Message contents the service answers with: nothing, or the lines "a" and
\* "b" (the reverse of their order in the second file).
MainContents == {<<>>, <<"a", NL, "b", NL>>}

MainReplies ==
  {TransportError, Response(401), Response(503)}
    \cup {Completion(t) : t \in MainContents}

\* A future before and after pool.submit.
NotSubmitted == [st |-> "new", attempt |-> 0, slept |-> <<>>, value |-> <<>>]
Pending == [st |-> "pending", attempt |-> 0, slept |-> <<>>, value |-> <<>>]

Init ==
  /\ pc = "pack"
  /\ \E f \in MainTextsF, g \in {ReadOk(t) : t \in MainTextsG} \cup {ReadNone} :
       files = <<[rel |-> <<"f">>, content |-> ReadOk(f)],
                 [rel |-> <<"g">>, content |-> g]>>
  /\ batches = <<>>
  /\ oversized = {}
  /\ is_tty \in BOOLEAN
  /\ futs = <<>>
  /\ submitted = 0
  /\ handled = {}
  /\ found = FALSE
  /\ printed = FALSE
  /\ stdout = <<>>
  /\ stderr = <<>>
  /\ exitcode = -1
  /\ merging = {}
  /\ ChunkerIdle
  /\ ReconcilerIdle
  /\ CallIdle

otherVars == <<content, chunks, oversized, chunk, fl, nresp, matched, call, log>>

\* What the steps of the run leave alone.
idleVars == <<otherVars, merging>>

\* The pool is created; nothing is found or printed yet.
OpenPool ==
  /\ pc = "packed"
  /\ pc' = "dispatch"
  /\ futs' = [b \in 1..Len(batches) |-> NotSubmitted]
  /\ submitted' = 0
  /\ found' = FALSE
  /\ printed' = FALSE
  /\ UNCHANGED <<files, batches, is_tty, handled, stdout, stderr, exitcode, idleVars>>

\* pool.submit of the next batch.
Submit ==
  /\ pc = "dispatch"
  /\ submitted < Len(batches)
  /\ futs' = [futs EXCEPT ![submitted + 1] = Pending]
  /\ submitted' = submitted + 1
  /\ UNCHANGED <<pc, files, batches, is_tty, handled, found, printed, stdout,
                 stderr, exitcode, idleVars>>

\* What the future keeps of a call that has ended: its value or its exception.
Settle(c) ==
  IF c.st = "running" THEN c ELSE [c EXCEPT !.attempt = 0, !.slept = <<>>]

\* Calls that a worker is running.
InFlight == {b \in 1..Len(futs) : futs[b].st = "running"}

\* Every submitted batch gets a thread of its own at once.
WorkerStartUnbounded(b) ==
  /\ pc = "dispatch"
  /\ futs[b].st = "pending"
  /\ \A c \in 1..(b - 1) : futs[c].st # "pending"
  /\ futs' = [futs EXCEPT ![b] = CallStart]
  /\ UNCHANGED <<pc, files, batches, is_tty, submitted, handled, found, printed,
                 stdout, stderr, exitcode, idleVars>>

\* A free worker takes the batch that has waited longest and calls call_llm.
WorkerStart(b) ==
  /\ pc = "dispatch"
  /\ futs[b].st = "pending"
  /\ \A c \in 1..(b - 1) : futs[c].st # "pending"
  /\ Cardinality(InFlight) < Threads
  /\ futs' = [futs EXCEPT ![b] = CallStart]
  /\ UNCHANGED <<pc, files, batches, is_tty, submitted, handled, found, printed,
                 stdout, stderr, exitcode, idleVars>>

\* The service answers the request of the call for batch b.
WorkerRequest(b, reply) ==
  /\ pc = "dispatch"
  /\ futs[b].st = "running"
  /\ futs' = [futs EXCEPT ![b] = Settle(CallStep(futs[b], reply))]
  /\ UNCHANGED <<pc, files, batches, is_tty, submitted, handled, found, printed,
                 stdout, stderr, exitcode, idleVars>>

\* The as_completed loop runs once every batch is submitted.
Collecting == pc = "dispatch" /\ submitted = Len(batches)

\* The exception of a failed call is not caught: the run stops.
HandleAbort(b) ==
  /\ Collecting
  /\ b \notin handled
  /\ futs[b].st \in {"returned", "raised"}
  /\ handled' = handled \cup {b}
  /\ IF futs[b].st = "raised"
     THEN /\ pc' = "exit"
          /\ exitcode' = 1
          /\ UNCHANGED <<found, printed, stdout, stderr>>
     ELSE LET results == match_results(futs[b].value, batches[b])
          IN  /\ found' = (found \/ results # NoResults)
              /\ stdout' = stdout \o Printed(results)
              /\ printed' = IF results # NoResults /\ is_tty THEN TRUE ELSE printed
              /\ UNCHANGED <<pc, stderr, exitcode>>
  /\ UNCHANGED <<files, batches, is_tty, futs, submitted, idleVars>>

\* The body of the as_completed loop for the completed future of batch b.
Reconcile(b) ==
  IF futs[b].st = "raised"
  THEN /\ stderr' = Append(stderr, Labels(batches[b]))
       /\ UNCHANGED <<found, printed, stdout>>
  ELSE LET results == match_results(futs[b].value, batches[b])
       IN  /\ found' = (found \/ results # NoResults)
           /\ stdout' = stdout \o Printed(results)
           /\ printed' = IF results # NoResults /\ is_tty THEN TRUE ELSE printed
           /\ UNCHANGED stderr

\* One iteration of the as_completed loop, for the completed future of batch b.
Handle(b) ==
  /\ Collecting
  /\ b \notin handled
  /\ futs[b].st \in {"returned", "raised"}
  /\ handled' = handled \cup {b}
  /\ Reconcile(b)
  /\ UNCHANGED <<pc, files, batches, is_tty, futs, submitted, exitcode, idleVars>>

\* The run fails as soon as one batch has failed.
ExitStatusStrict(f) == IF f /\ stderr = <<>> THEN 0 ELSE 1

\* sys.exit(0 if found else 1)
ExitStatus(f) == IF f THEN 0 ELSE 1

\* The run exits without waiting for the batches still out.
ExitEarly ==
  /\ Collecting
  /\ pc' = "exit"
  /\ exitcode' = ExitStatus(found)
  /\ UNCHANGED <<files, batches, is_tty, futs, submitted, handled, found, printed,
                 stdout, stderr, idleVars>>

\* The loop is over: the pool shuts down and the run exits.
Exit ==
  /\ Collecting
  /\ handled = 1..Len(batches)
  /\ pc' = "exit"
  /\ exitcode' = ExitStatus(found)
  /\ UNCHANGED <<files, batches, is_tty, futs, submitted, handled, found, printed,
                 stdout, stderr, idleVars>>

Next ==
  \/ PackBatches
  \/ OpenPool
  \/ Submit
  \/ \E b \in 1..Len(futs) : WorkerStart(b)
  \/ \E b \in 1..Len(futs), reply \in MainReplies : WorkerRequest(b, reply)
  \/ \E b \in 1..Len(futs) : Handle(b)
  \/ Exit

Spec == Init /\ [][Next]_vars

\* Batches whose call returned, and batches whose call failed.
Returned == {b \in 1..Len(futs) : futs[b].st = "returned"}
Raised == {b \in 1..Len(futs) : futs[b].st = "raised"}

\* What the run prints for batch b once its call has returned.
PrintedOf(b) == Printed(match_results(futs[b].value, batches[b]))

\* The printed records of one path, in printing order.
RECURSIVE RecordsOf(_, _)
RecordsOf(out, rel) ==
  IF out = <<>> THEN <<>>
  ELSE IF Head(out)[1] = rel
  THEN <<(<<Head(out)[2], Head(out)[3]>>)>> \o RecordsOf(Tail(out), rel)
  ELSE RecordsOf(Tail(out), rel)

\* The records of one path over all batches whose call returned.
AllRecordsOf(rel) ==
  {<<r[2], r[3]>> : r \in {q \in UNION {Elems(PrintedOf(b)) : b \in Returned} : q[1] = rel}}

\* C2: at the end of the run the records printed for each file are the records
\* of all its batches in ascending line number, whatever the order in which
\* the batches completed.
AggregationDeterminism ==
  pc = "exit" =>
    \A k \in 1..Len(files) :
      RecordsOf(stdout, files[k].rel) = SortedRecords(AllRecordsOf(files[k].rel))

seq \sqsubseteq out ==
  \E k \in 0..(Len(out) - Len(seq)) : SubSeq(out, k + 1, k + Len(seq)) = seq

RECURSIVE TotalPrinted(_)
TotalPrinted(B) ==
  IF B = {} THEN 0
  ELSE LET b == CHOOSE x \in B : TRUE
       IN  Len(PrintedOf(b)) + TotalPrinted(B \ {b})

\* C7: whichever calls fail and in whatever order the calls complete, the
\* records of every batch gone through whose call returned are on standard
\* output, a failed batch has left exactly one error report with its own chunk
\* labels and no record, and the run exits only after every batch was gone
\* through.
FailureIsolation ==
  /\ \A b \in handled \cap Returned : PrintedOf(b) \sqsubseteq stdout
  /\ Len(stdout) = TotalPrinted(handled \cap Returned)
  /\ Elems(stderr) = {Labels(batches[b]) : b \in handled \cap Raised}
  /\ Len(stderr) = Cardinality(handled \cap Raised)
  /\ pc = "exit" => handled = 1..Len(batches)

\* The run is over: the first batch gone through had failed, a batch gone
\* through after it has its matches printed.
FailureIsolationWitness ==
  /\ pc = "exit"
  /\ stderr # <<>>
  /\ stdout # <<>>
  /\ \E b \in Raised, c \in Returned : b < c /\ PrintedOf(c) # <<>>

\* C9: the run exits with 0 if a batch produced a non-empty reconciled result
\* and with 1 otherwise, however many batches failed.
RunOutcome ==
  pc = "exit" =>
    /\ exitcode \in {0, 1}
    /\ exitcode = 0 <=>
         \E b \in Returned : match_results(futs[b].value, batches[b]) # NoResults

\* A run that exits with success although a batch failed.
RunOutcomeWitness ==
  /\ pc = "exit"
  /\ exitcode = 0
  /\ Raised # {}

\* C11: at no time are more external calls in flight than the pool has
\* workers, however many batches have been submitted.
BoundedConcurrency == Cardinality(InFlight) <= Threads

\* The pool is full and a submitted batch waits for a worker.
BoundedConcurrencyWitness ==
  /\ Cardinality(InFlight) = Threads
  /\ \E b \in 1..Len(futs) : futs[b].st = "pending"

(***************************************************************************)
(* Matching-policy specification: find_lines on a file of at most          *)
(* MaxPolicyLines lines that the program's budget of 20000 characters      *)
(* keeps in one chunk, over a response of at most MaxPolicyResp lines; the *)
(* response lines consumed are recorded in matched.                        *)
(***************************************************************************)
\* Most lines of the file, and most lines of the response.
MaxPolicyLines == 3
MaxPolicyResp == 3

\* Lines of the file, each with its line break.
PolicySrcLines == {<<"a", NL>>, <<SP, "a", NL>>, <<"b", NL>>}

\* Lines of the response.
PolicyRespLines == {<<"a", SP>>, <<"b">>, <<"a", "a">>, <<SP>>}

InitPolicy ==
  /\ pc = "policy_chunk"
  /\ \E n \in 0..MaxPolicyLines : \E ls \in [1..n -> PolicySrcLines] :
       content = join(ls)
  /\ chunks = <<>>
  /\ BatcherIdle
  /\ ReconcilerIdle
  /\ CallIdle
  /\ MainIdle

\* chunk_file of a file within the program's budget: one chunk, offset 0; then
\* find_lines is called on it.
PolicyChunk ==
  /\ pc = "policy_chunk"
  /\ chunks' = <<Chunk(Rel, content, 0)>>
  /\ chunk' = 1
  /\ fl' = FindInit
  /\ pc' = "policy_loop"
  /\ UNCHANGED <<content, files, batches, oversized, nresp, matched, call, log,
                 mainVars>>

\* find_lines consumes the response line ml.
PolicyLine(ml) ==
  /\ pc = "policy_loop"
  /\ nresp < MaxPolicyResp
  /\ fl' = FindStep(splitlines(chunks[chunk].text), chunks[chunk].offset, fl, ml)
  /\ nresp' = nresp + 1
  /\ matched' = Append(matched, ml)
  /\ UNCHANGED <<pc, content, chunks, files, batches, oversized, chunk, call, log,
                 mainVars>>

\* The response whose lines are ms, as the service sends it.
ResponseOf(ms) ==
  join([k \in 1..Len(ms) |-> IF k < Len(ms) THEN ms[k] \o <<NL>> ELSE ms[k]])

\* The response was the lines consumed so far: call_llm returns it trimmed, and
\* main reconciles it with the batch of the one chunk.
PolicyResult ==
  /\ pc = "policy_loop"
  /\ LET results == match_results(strip(ResponseOf(matched)), <<chunks[chunk]>>)
     IN  /\ found' = (results # NoResults)
         /\ stdout' = Printed(results)
  /\ pc' = "policy_done"
  /\ UNCHANGED <<content, chunks, files, batches, oversized, chunk, fl, nresp,
                 matched, call, log, is_tty, futs, submitted, handled, printed,
                 stderr, exitcode, merging>>

NextPolicy ==
  \/ PolicyChunk
  \/ \E ml \in PolicyRespLines : PolicyLine(ml)
  \/ PolicyResult

SpecPolicy == InitPolicy /\ [][NextPolicy]_vars

MinOf(S) == CHOOSE x \in S : \A y \in S : x <= y

\* 0-based indexes of the chunk lines whose trimmed form is s.
TrimEqual(src, s) == {i \in 0..(Len(src) - 1) : strip(src[i + 1]) = s}

\* The policy as the specification words it: the first trim-equal line from
\* the cursor on, else the first trim-equal line of the chunk; recorded if its
\* line number is new, else the response line is skipped.
ClaimedStep(src, offset, st, ml) ==
  LET s    == strip(ml)
      all  == TrimEqual(src, s)
      from == {i \in all : i >= st.idx}
      i    == IF from # {} THEN MinOf(from) ELSE MinOf(all)
  IN  IF s = <<>> \/ all = {} THEN st
      ELSE IF (offset + i + 1) \in st.seen THEN st
      ELSE [results |-> Append(st.results, <<offset + i + 1, src[i + 1]>>),
            seen    |-> st.seen \cup {offset + i + 1},
            idx     |-> i + 1]

RECURSIVE ClaimedLoop(_, _, _, _)
ClaimedLoop(src, offset, st, ms) ==
  IF ms = <<>> THEN st
  ELSE ClaimedLoop(src, offset, ClaimedStep(src, offset, st, Head(ms)), Tail(ms))

\* The policy with recorded lines left out of the search: the first trim-equal
\* line not yet recorded from the cursor on, else the first such line of the
\* chunk; no record when every trim-equal line is recorded.
UnrecordedStep(src, offset, st, ml) ==
  LET s    == strip(ml)
      open == {i \in TrimEqual(src, s) : (offset + i + 1) \notin st.seen}
      from == {i \in open : i >= st.idx}
      i    == IF from # {} THEN MinOf(from) ELSE MinOf(open)
  IN  IF s = <<>> \/ open = {} THEN st
      ELSE [results |-> Append(st.results, <<offset + i + 1, src[i + 1]>>),
            seen    |-> st.seen \cup {offset + i + 1},
            idx     |-> i + 1]

RECURSIVE UnrecordedLoop(_, _, _, _)
UnrecordedLoop(src, offset, st, ms) ==
  IF ms = <<>> THEN st
  ELSE UnrecordedLoop(src, offset, UnrecordedStep(src, offset, st, Head(ms)), Tail(ms))

\* C12 as stated: find_lines produces the records of the policy that takes
\* the first trim-equal line and skips the response line when that line is
\* already recorded.
MatchingPolicyAsStated ==
  pc = "policy_loop" =>
    fl.results = ClaimedLoop(splitlines(chunks[chunk].text), chunks[chunk].offset,
                             FindInit, matched).results

\* C12, amended: find_lines produces the records, and ends at the cursor, of
\* the policy that takes the first trim-equal line NOT YET RECORDED, from the
\* cursor on and else from the start of the chunk; a response line yields no
\* record only when every trim-equal line is recorded (or none exists).
MatchingPolicy ==
  pc = "policy_loop" =>
    fl = UnrecordedLoop(splitlines(chunks[chunk].text), chunks[chunk].offset,
                        FindInit, matched)

\* A response line found a later, unrecorded line after the search had
\* restarted from the start: a record the stated policy does not produce.
MatchingPolicyWitness ==
  /\ pc = "policy_loop"
  /\ Len(fl.results) = 3
  /\ fl.results[2][1] < fl.results[1][1]
  /\ Len(ClaimedLoop(splitlines(chunks[chunk].text), chunks[chunk].offset,
                     FindInit, matched).results) = 2

(***************************************************************************)
(* Order of the batches (batcher specification)                            *)
(***************************************************************************)
RECURSIVE WithinBudget(_)
\* The chunks of a list that are within the budget, in list order.
WithinBudget(cs) ==
  IF cs = <<>> THEN <<>>
  ELSE IF Len(Head(cs).text) <= MAX_CHARS THEN <<Head(cs)>> \o WithinBudget(Tail(cs))
  ELSE WithinBudget(Tail(cs))

RECURSIVE OverBudget(_)
\* The chunks of a list that are over the budget, in list order.
OverBudget(cs) ==
  IF cs = <<>> THEN <<>>
  ELSE IF Len(Head(cs).text) > MAX_CHARS THEN <<Head(cs)>> \o OverBudget(Tail(cs))
  ELSE OverBudget(Tail(cs))

\* C13 as stated: the batches read in output order, each batch in order, list
\* the chunks in exactly the input order.
BatchOrderAsStated ==
  pc = "packed" => Flatten(batches) = AllChunks(files)

\* C13, amended: read in output order, the batches list the chunks within the
\* budget in their input order and the chunks over the budget in their input
\* order; a chunk over the budget is put out at once as a batch of its own and
\* does not close the open batch.
BatchOrder ==
  pc = "packed" =>
    /\ WithinBudget(Flatten(batches)) = WithinBudget(AllChunks(files))
    /\ OverBudget(Flatten(batches)) = OverBudget(AllChunks(files))

\* A chunk over the budget stands in the batches ahead of a chunk that
\* precedes it in the input, and that chunk shares its batch with a chunk that
\* follows the one over the budget.
BatchOrderWitness ==
  /\ pc = "packed"
  /\ LET input == AllChunks(files)
     IN  /\ Len(input) = 3
         /\ Len(input[2].text) > MAX_CHARS
         /\ batches = <<(<<input[2]>>), (<<input[1], input[3]>>)>>

(***************************************************************************)
(* Label specification: two files whose paths may contain "[" are packed,  *)
(* and the response to one batch is reconciled and printed.                *)
(***************************************************************************)
\* Relative paths; "f[g]" stands for a path such as "[id].tsx".
LabelRels == {<<"f">>, <<"g">>, <<"f", "[", "g", "]">>}

LabelTexts == {<<"a">>, <<"b", NL, "a">>, <<"a", NL, NL, "a", NL>>, <<"b", NL, NL, "b", NL>>}

InitLabel ==
  /\ pc = "label_pack"
  /\ \E r1, r2 \in LabelRels : \E t1, t2 \in LabelTexts :
       /\ TextLess(r1, r2)
       /\ files = <<[rel |-> r1, content |-> ReadOk(t1)],
                    [rel |-> r2, content |-> ReadOk(t2)]>>
  /\ batches = <<>>
  /\ oversized = {}
  /\ ChunkerIdle
  /\ ReconcilerIdle
  /\ CallIdle
  /\ MainIdle

LabelPack ==
  /\ pc = "label_pack"
  /\ batches' = pack_batches(files)
  /\ pc' = "label_packed"
  /\ UNCHANGED <<content, chunks, files, oversized, chunk, fl, nresp, matched, call,
                 log, mainVars>>

\* The call for batch b has returned output; its matches are printed.
LabelMatch(b, output) ==
  /\ pc = "label_packed"
  /\ stdout' = Printed(match_results(output, batches[b]))
  /\ handled' = {b}
  /\ pc' = "label_matched"
  /\ UNCHANGED <<content, chunks, files, batches, oversized, chunk, fl, nresp,
                 matched, call, log, is_tty, futs, submitted, found, printed,
                 stderr, exitcode, merging>>

NextLabel ==
  \/ LabelPack
  \/ \E b \in 1..Len(batches), t \in MainContents : LabelMatch(b, strip(t))

SpecLabel == InitLabel /\ [][NextLabel]_vars

\* C14: the label of every chunk of a file leads back to the path of the
\* file, and every printed record stands under the path of a file of which its
\* text is the line of its number.
LabelRoundTrip ==
  /\ pc # "label_pack" =>
       \A k \in 1..Len(files) :
         LET cs == chunk_file(files[k].rel, files[k].content.text)
         IN  \A j \in 1..Len(cs) : rel_from_label(cs[j].label) = files[k].rel
  /\ pc = "label_matched" =>
       \A r \in 1..Len(stdout) :
         \E k \in 1..Len(files) :
           /\ stdout[r][1] = files[k].rel
           /\ stdout[r][2] \in 1..Len(splitlines(files[k].content.text))
           /\ stdout[r][3] = splitlines(files[k].content.text)[stdout[r][2]]

(***************************************************************************)
(* Emptiness of chunks (chunker specification).                            *)
(***************************************************************************)
\* C15: every chunk chunk_file returns has non-empty text, for every file
\* text, the empty text included.
ChunkNonEmpty ==
  pc = "chunked" => \A k \in 1..Len(chunks) : chunks[k].text # <<>>

(***************************************************************************)
(* Trim equality (policy specification).                                   *)
(***************************************************************************)
PolicySrc == splitlines(chunks[chunk].text)

\* Every record is a line of the chunk under its number, trim-equal to a
\* non-blank response line.
TrimSound ==
  pc \in {"policy_loop", "policy_done"} =>
    \A r \in 1..Len(fl.results) :
      /\ fl.results[r][1] \in 1..Len(PolicySrc)
      /\ fl.results[r][2] = PolicySrc[fl.results[r][1]]
      /\ \E j \in 1..Len(matched) :
           /\ strip(matched[j]) # <<>>
           /\ strip(fl.results[r][2]) = strip(matched[j])

\* Every non-blank response line trim-equal to a chunk line has a record
\* trim-equal to it.
TrimComplete ==
  pc \in {"policy_loop", "policy_done"} =>
    \A j \in 1..Len(matched) :
      (strip(matched[j]) # <<>> /\ TrimEqual(PolicySrc, strip(matched[j])) # {})
        => \E r \in 1..Len(fl.results) : strip(fl.results[r][2]) = strip(matched[j])

\* A blank response leaves no entry: nothing is found and nothing printed.
BlankResponse ==
  (pc = "policy_done" /\ strip(ResponseOf(matched)) = <<>>)
    => (~found /\ stdout = <<>>)

\* What is printed is the records of find_lines, sorted and without duplicates.
PolicyPrinted ==
  pc = "policy_done" =>
    LET recs == SortedRecords(Elems(fl.results))
    IN  /\ found = (fl.results # <<>>)
        /\ stdout = [k \in 1..Len(recs) |-> <<Rel, recs[k][1], recs[k][2]>>]

\* A response line trim-equal to no chunk line changes neither the records nor
\* the cursor.
NoiseDropped ==
  (/\ pc = "policy_loop"
   /\ nresp' = nresp + 1
   /\ TrimEqual(PolicySrc, strip(matched'[Len(matched')])) = {})
    => fl' = fl

\* C16: a record stands for a chunk line trim-equal to a non-blank response
\* line; every non-blank response line trim-equal to some chunk line has a
\* record trim-equal to it; a response line trim-equal to no chunk line changes
\* neither records nor cursor; a blank response leaves no entry.
TrimEquality ==
  /\ [](TrimSound /\ TrimComplete /\ BlankResponse /\ PolicyPrinted)
  /\ [][NoiseDropped]_vars

\* The response "a ", then "aa": the line " a" is recorded for the first, the
\* second matches nothing.
TrimEqualityWitness ==
  /\ pc = "policy_done"
  /\ Len(matched) = 2
  /\ matched[1] = <<"a", SP>>
  /\ matched[2] = <<"a", "a">>
  /\ fl.results = <<<<1, <<SP, "a">>>>>>
  /\ stdout = <<<<Rel, 1, <<SP, "a">>>>>>

(***************************************************************************)
(* Settlement of the batches (main run under fair scheduling).             *)
(***************************************************************************)
\* The steps of PackBatches and of Handle, told by the control state they
\* change: in a run, pc leaves "pack" by PackBatches only and handled grows by
\* Handle only, and both actions can be taken whenever their guard holds.
PackControl == pc = "pack" /\ pc' = "packed"

HandleControl ==
  \E b \in 1..Len(futs) :
    /\ Collecting
    /\ b \notin handled
    /\ futs[b].st \in {"returned", "raised"}
    /\ handled' = handled \cup {b}

\* The main thread goes on whenever it can, a free worker takes a waiting
\* batch, and every request is answered (httpx gives up after its timeout
\* otherwise): none of these steps is put off forever.
FairSpec ==
  /\ Spec
  /\ WF_pc(PackControl)
  /\ WF_vars(OpenPool \/ Submit \/ Exit)
  /\ WF_handled(HandleControl)
  /\ WF_vars(\E b \in 1..Len(futs) : WorkerStart(b))
  /\ WF_vars(\E b \in 1..Len(futs), reply \in MainReplies : WorkerRequest(b, reply))

\* Progress of a future: submitted, taken by a worker, done.
Rank(st) ==
  CASE st = "new" -> 0
    [] st = "pending" -> 1
    [] st = "running" -> 2
    [] OTHER -> 3

\* The outcome batch b has reached.
Outcome(b) ==
  IF b \notin handled THEN "none"
  ELSE IF futs[b].st = "raised" THEN "error reported"
  ELSE "reconciled"

SettledState ==
  /\ handled \subseteq (Returned \cup Raised)
  /\ submitted = Cardinality({b \in 1..Len(futs) : futs[b].st # "new"})
  /\ pc = "exit" => \A b \in 1..Len(batches) : Outcome(b) # "none"

\* A future only advances and a finished one stays as it is; an outcome once
\* reached stays; standard output and standard error change only as one batch
\* not gone through before reaches its one outcome.
SettledOnce ==
  /\ \A b \in 1..Len(futs) :
       /\ b \in 1..Len(futs')
       /\ Rank(futs'[b].st) >= Rank(futs[b].st)
       /\ futs'[b].st = "pending" => futs[b].st \in {"new", "pending"}
       /\ Rank(futs[b].st) = 3 => futs'[b] = futs[b]
       /\ Outcome(b) # "none" => Outcome(b)' = Outcome(b)
  /\ handled \subseteq handled'
  /\ Cardinality(handled' \ handled) <= 1
  /\ <<stdout, stderr, found, printed>>' # <<stdout, stderr, found, printed>>
       => (handled' # handled \/ pc = "packed")
  /\ \A b \in handled' \ handled :
       IF futs[b].st = "raised"
       THEN stderr' = Append(stderr, Labels(batches[b])) /\ stdout' = stdout
       ELSE stderr' = stderr /\ stdout' = stdout \o PrintedOf(b)

\* C17: every batch is submitted once; under fair scheduling every batch
\* reaches exactly one of the outcomes "reconciled" and "error reported", once,
\* and the run exits, and only after every batch has reached its outcome.
Settlement ==
  /\ []SettledState
  /\ [][SettledOnce]_vars
  /\ <>(pc = "exit")

\* The run is over with both outcomes among its batches.
SettlementWitness ==
  /\ pc = "exit"
  /\ \E b, c \in 1..Len(batches) :
       Outcome(b) = "reconciled" /\ Outcome(c) = "error reported"

(***************************************************************************)
(* Serial specification: the main run with the iteration of the            *)
(* as_completed loop in two steps, the loop yielding a completed future    *)
(* and the body reconciling it, so that the workers' steps fall between.   *)
(***************************************************************************)
\* Whatever has completed is worked on at once, each future by itself.
TakeUnserialized(b) ==
  /\ Collecting
  /\ b \notin handled \cup merging
  /\ futs[b].st \in {"returned", "raised"}
  /\ merging' = merging \cup {b}
  /\ UNCHANGED <<pc, files, batches, is_tty, futs, submitted, handled, found,
                 printed, stdout, stderr, exitcode, otherVars>>

\* The loop of the main thread yields the completed future of batch b.
Take(b) ==
  /\ Collecting
  /\ merging = {}
  /\ b \notin handled
  /\ futs[b].st \in {"returned", "raised"}
  /\ merging' = {b}
  /\ UNCHANGED <<pc, files, batches, is_tty, futs, submitted, handled, found,
                 printed, stdout, stderr, exitcode, otherVars>>

\* The body of the loop for the future it holds.
Merge(b) ==
  /\ b \in merging
  /\ Reconcile(b)
  /\ handled' = handled \cup {b}
  /\ merging' = merging \ {b}
  /\ UNCHANGED <<pc, files, batches, is_tty, futs, submitted, exitcode, otherVars>>

NextSerial ==
  \/ PackBatches
  \/ OpenPool
  \/ Submit
  \/ \E b \in 1..Len(futs) : WorkerStart(b)
  \/ \E b \in 1..Len(futs), reply \in MainReplies : WorkerRequest(b, reply)
  \/ \E b \in 1..Len(futs) : Take(b)
  \/ \E b \in 1..Len(futs) : Merge(b)
  \/ Exit

SpecSerial == Init /\ [][NextSerial]_vars

\* The shared result state of the run.
resultVars == <<found, printed, stdout, stderr, handled>>

\* The result state is written by the body of the loop for the one batch it
\* holds, and a step of a worker writes none of it.
ResultWrites ==
  /\ resultVars' # resultVars =>
       \E b \in merging :
         /\ merging = {b}
         /\ merging' = {}
         /\ handled' = handled \cup {b}
         /\ futs' = futs
  /\ futs' # futs => UNCHANGED <<resultVars, merging>>

\* C18: at no time is the result of more than one batch being reconciled and
\* emitted, the shared result state changes only as the loop of the main
\* thread finishes the one batch it holds, and no step of a worker changes it.
Serialized ==
  /\ [](Cardinality(merging) <= 1)
  /\ [][ResultWrites]_vars

\* A batch is being reconciled while a second completed batch waits its turn
\* and a third is still in flight.
SerializedWitness ==
  /\ merging # {}
  /\ InFlight # {}
  /\ \E c \in 1..Len(futs) :
       c \notin handled \cup merging /\ futs[c].st \in {"returned", "raised"}

(***************************************************************************)
(* Chunks of a split file (batcher specification).                         *)
(***************************************************************************)
\* The batches that hold a chunk with one of the labels of cs.
BatchesOf(cs) ==
  {i \in 1..Len(batches) :
     \E j \in 1..Len(batches[i]), k \in 1..Len(cs) : batches[i][j].label = cs[k].label}

\* C19: two consecutive chunks of one file are in different batches, and the
\* chunks of a file split into several chunks are in at least two batches.
SplitAcrossBatches ==
  pc = "packed" =>
    \A f \in 1..Len(files) :
      files[f].content.ok =>
        LET cs == chunk_file(files[f].rel, files[f].content.text)
        IN  /\ \A k \in 1..(Len(cs) - 1) :
                 /\ Len(cs[k].text) + Len(cs[k + 1].text) > MAX_CHARS
                 /\ BatchesOf(<<cs[k]>>) \cap BatchesOf(<<cs[k + 1]>>) = {}
            /\ Len(cs) >= 2 => Cardinality(BatchesOf(cs)) >= 2

\* A file split into chunks within the budget, one of which shares its batch
\* with a chunk of another file.
SplitAcrossBatchesWitness ==
  /\ pc = "packed"
  /\ \E f \in 1..Len(files) :
       /\ files[f].content.ok
       /\ LET cs == chunk_file(files[f].rel, files[f].content.text)
          IN  /\ Len(cs) >= 2
              /\ \A k \in 1..Len(cs) : Len(cs[k].text) <= MAX_CHARS
              /\ \E i \in BatchesOf(cs) :
                   \E j \in 1..Len(batches[i]) :
                     rel_from_label(batches[i][j].label) # files[f].rel

====
